---- MODULE Spec2Model ----
(***************************************************************************)
(* Model of src/heat_equation.py: HeatEquationSolver, an explicit FTCS     *)
(* integrator of the 1D heat equation.                                     *)
(*                                                                         *)
(* Numbers.  Python floats are modelled as exact rationals <<n, d>> with   *)
(* d > 0, kept in lowest terms; 0.0 is <<0,1>> and 1.0 is <<1,1>>.         *)
(* Lists.  Python lists are objects: `heap` maps a buffer identity (its    *)
(* index in the heap) to the list's contents, and self.u, u_new and the    *)
(* entries of a results list are identities, so that aliasing is visible.  *)
(***************************************************************************)
EXTENDS Integers, Sequences, FiniteSets

VARIABLES pc, config, dx, dt, u, heap, r, results, u_new, todo, t,
          returned, out, exc, fs

vars == <<pc, config, dx, dt, u, heap, r, results, u_new, todo, t,
          returned, out, exc, fs>>

(***************************************************************************)
(* Bounds of the model.                                                    *)
(***************************************************************************)
\* largest num_points_x of a configuration (the smallest valid one is 3)
MaxNX == 4
\* largest num_points_t of a configuration
MaxNT == 2
\* time steps one solver instance performs over all its solve() calls
MaxSteps == 4
\* save_results() calls on one solver instance
MaxSaves == 1

(***************************************************************************)
(* Exact rational arithmetic standing for Python's float operators.        *)
(***************************************************************************)
Abs(x) == IF x < 0 THEN -x ELSE x

RECURSIVE GCD(_, _)
GCD(a, b) == IF b = 0 THEN a ELSE GCD(b, a % b)

LCM(a, b) == (a \div GCD(a, b)) * b

Norm(n, d) ==
    LET g == GCD(Abs(n), d) IN <<n \div g, d \div g>>

RAdd(a, b) ==
    LET l == LCM(a[2], b[2])
    IN  Norm(a[1] * (l \div a[2]) + b[1] * (l \div b[2]), l)

RNeg(a) == <<-a[1], a[2]>>

RSub(a, b) == RAdd(a, RNeg(b))

RMul(a, b) ==
    LET g1 == GCD(Abs(a[1]), b[2])
        g2 == GCD(Abs(b[1]), a[2])
    IN  Norm((a[1] \div g1) * (b[1] \div g2), (a[2] \div g2) * (b[2] \div g1))

\* b is not zero
RDiv(a, b) ==
    RMul(a, IF b[1] < 0 THEN <<-b[2], -b[1]>> ELSE <<b[2], b[1]>>)

RLeq(a, b) ==
    LET l == LCM(a[2], b[2])
    IN  a[1] * (l \div a[2]) <= b[1] * (l \div b[2])

RLess(a, b) == RLeq(a, b) /\ a # b

Rat(n) == <<n, 1>>

Zero == Rat(0)
One == Rat(1)
Two == Rat(2)
Half == <<1, 2>>

(***************************************************************************)
(* Configuration files the constructor may be pointed at.                  *)
(***************************************************************************)
\* slip: alpha read by _initialize_grid too
InitKeysWithAlpha == <<"length", "num_points_x", "total_time", "num_points_t", "alpha">>

\* the keys _initialize_grid reads, in the order it reads them
InitKeys == <<"length", "num_points_x", "total_time", "num_points_t">>

RequiredKeys == {"length", "num_points_x", "total_time", "num_points_t", "alpha"}

LengthSet == {Rat(1), Rat(2)}
TotalTimeSet == {Rat(1)}
AlphaSet == {<<1, 2>>, <<1, 4>>}
OutputFiles == {"output.csv", "test_output.csv"}

BaseConfigs ==
    [length : LengthSet, num_points_x : 3..MaxNX, total_time : TotalTimeSet,
     num_points_t : 1..MaxNT, alpha : AlphaSet]

WithOutput(c, f) ==
    [k \in DOMAIN c \cup {"output_file"} |->
        IF k = "output_file" THEN f ELSE c[k]]

Without(c, key) == [k \in DOMAIN c \ {key} |-> c[k]]

\* every required key present, with or without the optional output_file
ValidConfigs ==
    BaseConfigs \cup {WithOutput(c, "test_output.csv") : c \in BaseConfigs}

\* well-formed JSON objects lacking exactly one required key
LackingConfigs ==
    {Without(c, key) : c \in BaseConfigs, key \in RequiredKeys}

\* what config_path may name: nothing, a file that is not JSON, a JSON object
ConfigFiles ==
    {[state |-> "absent"], [state |-> "malformed"]}
    \cup {[state |-> "json", obj |-> c] : c \in ValidConfigs \cup LackingConfigs}

(***************************************************************************)
(* Python list helpers.                                                    *)
(***************************************************************************)
\* buf[i] with Python's indexing: 0-based, a negative index counts from the end
At(buf, i) == IF i < 0 THEN buf[Len(buf) + i + 1] ELSE buf[i + 1]

\* buf with buf[i] = v assigned (i >= 0)
Put(buf, i, v) == [buf EXCEPT ![i + 1] = v]

\* range(a, b) as the sequence a, a+1, ..., b-1
Range(a, b) == [k \in 1..(IF b > a THEN b - a ELSE 0) |-> a + k - 1]

\* slip: the list itself instead of a copy of it
SliceAlias(h, id) == [heap |-> h, ref |-> id]

\* self.u[:] : a new list object holding the same values
Slice(h, id) == [heap |-> Append(h, h[id]), ref |-> Len(h) + 1]

(***************************************************************************)
(* HeatEquationSolver                                                      *)
(***************************************************************************)
\* the first key _initialize_grid reads that cfg lacks, "" when it has them all
RECURSIVE FirstMissing(_, _)
FirstMissing(cfg, keys) ==
    IF keys = <<>> THEN ""
    ELSE IF Head(keys) \notin DOMAIN cfg THEN Head(keys)
    ELSE FirstMissing(cfg, Tail(keys))

\* slip: the spike at the rounded-up midpoint
InitialFieldCeil(nx) ==
    LET mid_point == (nx + 1) \div 2
    IN  Put([k \in 1..nx |-> Zero], mid_point, One)

\* [0.0] * nx with the spike at nx // 2
InitialField(nx) ==
    LET mid_point == nx \div 2
    IN  Put([k \in 1..nx |-> Zero], mid_point, One)

\* r = alpha * self.dt / (self.dx ** 2)
DiffusionNumber(alpha, dtv, dxv) == RDiv(RMul(alpha, dtv), RMul(dxv, dxv))

\* slip: r >= 0.5
UnstableInclusive(rv) == RLeq(Half, rv)

\* if r > 0.5
Unstable(rv) == RLess(Half, rv)

\* slip: the sign of the central term
UpdateValuePlus(U, rv, i) ==
    RAdd(At(U, i),
         RMul(rv, RAdd(RAdd(At(U, i + 1), RMul(Two, At(U, i))), At(U, i - 1))))

\* self.u[i] + r * (self.u[i+1] - 2*self.u[i] + self.u[i-1])
UpdateValue(U, rv, i) ==
    RAdd(At(U, i),
         RMul(rv, RAdd(RSub(At(U, i + 1), RMul(Two, At(U, i))), At(U, i - 1))))

\* the values of a results list
Values(h, hist) == [k \in 1..Len(hist) |-> h[hist[k]]]

\* time steps performed so far by the solve() calls that returned
RECURSIVE StepsDone(_)
StepsDone(hs) ==
    IF hs = <<>> THEN 0 ELSE (Len(Head(hs)) - 1) + StepsDone(Tail(hs))

SavesDone == Cardinality({k \in 1..Len(out) : out[k][1] \in {"saved", "write-error"}})

NoConfig == [state |-> "none"]

Init ==
    /\ pc = "start"
    /\ config = NoConfig
    /\ dx = Zero
    /\ dt = Zero
    /\ u = 0
    /\ heap = <<>>
    /\ r = Zero
    /\ results = <<>>
    /\ u_new = 0
    /\ todo = <<>>
    /\ t = 0
    /\ returned = <<>>
    /\ out = <<>>
    /\ exc = <<>>
    /\ fs = [f \in OutputFiles |-> <<>>]

\* HeatEquationSolver(config_path): _load_config, then _initialize_grid
HeatEquationSolver_init ==
    /\ pc = "start"
    /\ \E file \in ConfigFiles :
         IF file.state = "absent"
         THEN /\ exc' = <<"FileNotFoundError">>
              /\ pc' = "failed"
              /\ UNCHANGED <<config, dx, dt, u, heap>>
         ELSE IF file.state = "malformed"
         THEN /\ exc' = <<"JSONDecodeError">>
              /\ pc' = "failed"
              /\ UNCHANGED <<config, dx, dt, u, heap>>
         ELSE LET cfg == file.obj
                  missing == FirstMissing(cfg, InitKeys)
              IN  IF missing # ""
                  THEN /\ config' = cfg
                       /\ exc' = <<"KeyError", missing>>
                       /\ pc' = "failed"
                       /\ UNCHANGED <<dx, dt, u, heap>>
                  ELSE /\ config' = cfg
                       /\ dx' = RDiv(cfg.length, Rat(cfg.num_points_x - 1))
                       /\ dt' = RDiv(cfg.total_time, Rat(cfg.num_points_t))
                       /\ heap' = <<InitialField(cfg.num_points_x)>>
                       /\ u' = 1
                       /\ pc' = "idle"
                       /\ UNCHANGED exc
    /\ UNCHANGED <<r, results, u_new, todo, t, returned, out, fs>>

\* slip: solve() starts again from the initial condition
solve_begin_reset ==
    /\ pc = "idle"
    /\ IF "alpha" \notin DOMAIN config
       THEN /\ exc' = <<"KeyError", "alpha">>
            /\ UNCHANGED <<pc, r, out, heap, results, t, u>>
       ELSE /\ StepsDone(returned) + config.num_points_t <= MaxSteps
            /\ LET rv == DiffusionNumber(config.alpha, dt, dx)
                    h0 == Append(heap, InitialField(config.num_points_x))
                    s == Slice(h0, Len(h0))
               IN  /\ r' = rv
                   /\ out' = IF Unstable(rv)
                             THEN Append(out, <<"warning", rv>>) ELSE out
                   /\ u' = Len(h0)
                   /\ heap' = s.heap
                   /\ results' = <<s.ref>>
            /\ t' = 0
            /\ pc' = "loop"
            /\ UNCHANGED exc
    /\ UNCHANGED <<config, dx, dt, u_new, todo, returned, fs>>

\* solve(), lines 87-97: read the config, compute r, warn, store the initial state
solve_begin ==
    /\ pc = "idle"
    /\ IF "alpha" \notin DOMAIN config
       THEN /\ exc' = <<"KeyError", "alpha">>
            /\ UNCHANGED <<pc, r, out, heap, results, t>>
       ELSE /\ StepsDone(returned) + config.num_points_t <= MaxSteps
            /\ LET rv == DiffusionNumber(config.alpha, dt, dx)
                    s == Slice(heap, u)
               IN  /\ r' = rv
                   /\ out' = IF Unstable(rv)
                             THEN Append(out, <<"warning", rv>>) ELSE out
                   /\ heap' = s.heap
                   /\ results' = <<s.ref>>
            /\ t' = 0
            /\ pc' = "loop"
            /\ UNCHANGED exc
    /\ UNCHANGED <<config, dx, dt, u, u_new, todo, returned, fs>>

\* slip: one step too many
MoreStepsInclusive(tv, nt) == tv <= nt

\* for _ in range(nt): one more step to run
MoreSteps(tv, nt) == tv < nt

\* slip: the loop starts at the left boundary
interiorFromZero(nx) == Range(0, nx - 1)

\* for i in range(1, nx - 1)
interior(nx) == Range(1, nx - 1)

\* lines 99-101: next iteration of the time loop, u_new = self.u[:]
solve_step_begin ==
    /\ pc = "loop"
    /\ MoreSteps(t, config.num_points_t)
    /\ LET s == Slice(heap, u)
       IN  /\ heap' = s.heap
           /\ u_new' = s.ref
    /\ todo' = interior(config.num_points_x)
    /\ pc' = "inner"
    /\ UNCHANGED <<config, dx, dt, u, r, results, t, returned, out, exc, fs>>

\* slip: the neighbours are read from the buffer being written
solve_update_in_place ==
    /\ pc = "inner"
    /\ todo # <<>>
    /\ LET i == Head(todo)
       IN  heap' = [heap EXCEPT ![u_new] = Put(@, i, UpdateValue(heap[u_new], r, i))]
    /\ todo' = Tail(todo)
    /\ UNCHANGED <<pc, config, dx, dt, u, r, results, u_new, t, returned, out,
                   exc, fs>>

\* line 102: one iteration of the loop over the interior indices
solve_update ==
    /\ pc = "inner"
    /\ todo # <<>>
    /\ LET i == Head(todo)
       IN  heap' = [heap EXCEPT ![u_new] = Put(@, i, UpdateValue(heap[u], r, i))]
    /\ todo' = Tail(todo)
    /\ UNCHANGED <<pc, config, dx, dt, u, r, results, u_new, t, returned, out,
                   exc, fs>>

\* lines 107-108: self.u = u_new; results.append(self.u[:])
solve_step_end ==
    /\ pc = "inner"
    /\ todo = <<>>
    /\ u' = u_new
    /\ LET s == Slice(heap, u_new)
       IN  /\ heap' = s.heap
           /\ results' = Append(results, s.ref)
    /\ t' = t + 1
    /\ pc' = "loop"
    /\ UNCHANGED <<config, dx, dt, r, u_new, todo, returned, out, exc, fs>>

\* line 110: return results (the caller keeps the list)
solve_return ==
    /\ pc = "loop"
    /\ ~MoreSteps(t, config.num_points_t)
    /\ returned' = Append(returned, results)
    /\ pc' = "idle"
    /\ UNCHANGED <<config, dx, dt, u, heap, r, results, u_new, todo, t, out,
                   exc, fs>>

\* the header row followed by one row per entry of results
Header(nx) == [k \in 1..nx |-> <<"x_", k - 1>>]

\* slip: the header row is not written
FileContentsNoHeader(nx, rows) == rows

FileContents(nx, rows) == <<Header(nx)>> \o rows

\* save_results(results), the caller passing a history solve() returned
save_results ==
    /\ pc = "idle"
    /\ SavesDone < MaxSaves
    /\ \E k \in 1..Len(returned), writable \in BOOLEAN :
         LET output_file == IF "output_file" \in DOMAIN config
                            THEN config.output_file ELSE "output.csv"
         IN  IF writable
             THEN /\ fs' = [fs EXCEPT ![output_file] =
                                FileContents(config.num_points_x,
                                             Values(heap, returned[k]))]
                  /\ out' = Append(out, <<"saved", output_file, k>>)
             ELSE /\ out' = Append(out, <<"write-error", output_file, k>>)
                  /\ UNCHANGED fs
    /\ UNCHANGED <<pc, config, dx, dt, u, heap, r, results, u_new, todo, t,
                   returned, exc>>

Next ==
    \/ HeatEquationSolver_init
    \/ solve_begin
    \/ solve_step_begin
    \/ solve_update
    \/ solve_step_end
    \/ solve_return
    \/ save_results

Spec == Init /\ [][Next]_vars

(***************************************************************************)
(* Properties                                                              *)
(***************************************************************************)
Constructed == pc \notin {"start", "failed"}

HasAlpha == Constructed /\ "alpha" \in DOMAIN config

\* a solve() call is running
Active == pc \in {"loop", "inner"}

\* the results lists built so far: the returned ones and the one being built
Hists == returned \o (IF Active THEN <<results>> ELSE <<>>)

NX == config.num_points_x
NT == config.num_points_t

\* alpha*dt/dx^2 from the configuration: dt = total_time/nt, dx = length/(nx-1)
ConfigR ==
    LET dxc == RDiv(config.length, Rat(NX - 1))
        dtc == RDiv(config.total_time, Rat(NT))
    IN  RDiv(RMul(config.alpha, dtc), RMul(dxc, dxc))

\* the unit impulse: 1.0 at index nx // 2, 0.0 elsewhere
Impulse == [k \in 1..NX |-> IF k - 1 = NX \div 2 THEN One ELSE Zero]

\* snapshot j (from 0) of history H, as values
Snap(H, j) == heap[H[j + 1]]

\* C1: every history solve() returns, on every call, has num_points_t + 1
\* entries and each entry has num_points_x values.
C1_Shape ==
    \A k \in 1..Len(returned) :
        /\ Len(returned[k]) = NT + 1
        /\ \A j \in 0..NT : Len(Snap(returned[k], j)) = NX

C1_Witness ==
    /\ Len(returned) >= 2
    /\ NT = MaxNT
    /\ NX = MaxNX

C3_Boundary ==
    Constructed =>
        \A k \in 1..Len(Hists) : \A j \in 0..(Len(Hists[k]) - 1) :
            /\ Snap(Hists[k], j)[1] = Zero
            /\ Snap(Hists[k], j)[NX] = Zero

C3_Witness ==
    /\ Len(returned) >= 2
    /\ ~RLeq(ConfigR, Half)
    /\ Snap(returned[2], NT) # Impulse

RECURSIVE Flatten(_)
Flatten(hs) == IF hs = <<>> THEN <<>> ELSE Head(hs) \o Flatten(Tail(hs))

HistRefs == Flatten(Hists)

\* no two history entries, and no entry and the live field, are one buffer
NoAlias ==
    /\ \A a, b \in 1..Len(HistRefs) : a # b => HistRefs[a] # HistRefs[b]
    /\ \A a \in 1..Len(HistRefs) : HistRefs[a] # u

\* a step of the program leaves every buffer a history holds as it is
Frozen ==
    \A a \in 1..Len(HistRefs) : heap'[HistRefs[a]] = heap[HistRefs[a]]

\* C5: every snapshot is an independent copy: once appended it is never
\* altered, and it shares its buffer with no other entry nor the live field.
C5_Independent == [](NoAlias) /\ [][Frozen]_vars

C5_Witness ==
    /\ Len(returned) >= 2
    /\ pc = "inner"
    /\ todo = <<>>
    /\ heap[u_new] # heap[u]

\* C6: when 0 < r <= 0.5, no value of a snapshot exceeds the largest value
\* of the snapshot before it.
C6_NonAmplifying ==
    (HasAlpha /\ RLess(Zero, ConfigR) /\ RLeq(ConfigR, Half)) =>
        \A k \in 1..Len(Hists) : \A j \in 1..(Len(Hists[k]) - 1) :
            \A i \in 1..NX : \E m \in 1..NX :
                RLeq(Snap(Hists[k], j)[i], Snap(Hists[k], j - 1)[m])

C6_Witness ==
    /\ HasAlpha
    /\ RLeq(ConfigR, Half)
    /\ Len(returned) >= 2
    /\ NX = MaxNX
    /\ \A i \in 2..(NX - 1) : RLess(Zero, Snap(returned[2], NT)[i])

Warnings == {k \in 1..Len(out) : out[k][1] = "warning"}

\* solve() calls that got past the stability check
CallsBegun == Len(Hists)

\* C7: each solve() call prints the warning exactly when r > 0.5, and it
\* then still runs every step and returns num_points_t + 1 entries.
C7_Warning ==
    HasAlpha =>
        /\ Cardinality(Warnings) =
              (IF RLeq(ConfigR, Half) THEN 0 ELSE CallsBegun)
        /\ \A k \in Warnings : out[k] = <<"warning", ConfigR>>
        /\ \A k \in 1..Len(returned) : Len(returned[k]) = NT + 1

C7_Witness ==
    /\ HasAlpha
    /\ Len(returned) >= 2
    /\ Cardinality(Warnings) = 2

\* the edge of C7: calls at r = 0.5 exactly, which print nothing
C7_WitnessQuiet ==
    /\ HasAlpha
    /\ Len(returned) >= 2
    /\ ConfigR = Half

\* the file save_results writes to
OutputFile ==
    IF "output_file" \in DOMAIN config THEN config.output_file ELSE "output.csv"

Saved == {k \in 1..Len(out) : out[k][1] = "saved"}

LastSaved == CHOOSE k \in Saved : \A j \in Saved : j <= k

\* C8: a successful save_results leaves in the output file the header
\* x_0 .. x_{nx-1} followed by one row per history entry, in order:
\* num_points_t + 2 lines.
C8_Saved ==
    /\ \A f \in OutputFiles : (Saved = {} \/ f # OutputFile) => fs[f] = <<>>
    /\ Saved # {} =>
          LET H == returned[out[LastSaved][3]]
              file == fs[OutputFile]
          IN  /\ Len(file) = NT + 2
              /\ file[1] = [c \in 1..NX |-> <<"x_", c - 1>>]
              /\ \A j \in 0..NT : file[j + 2] = Snap(H, j)

C8_Witness ==
    /\ Saved # {}
    /\ Len(returned) >= 2
    /\ out[LastSaved][3] = 2

\* C9: every snapshot after the first is the FTCS update of the snapshot
\* before it at every interior index, and a returned history holds exactly
\* num_points_t such steps.
C9_Recurrence ==
    HasAlpha =>
        /\ \A k \in 1..Len(Hists) : \A j \in 1..(Len(Hists[k]) - 1) :
              \A i \in 2..(NX - 1) :
                  LET prev == Snap(Hists[k], j - 1)
                      lap == RAdd(RSub(prev[i + 1], RMul(Two, prev[i])), prev[i - 1])
                  IN  Snap(Hists[k], j)[i] = RAdd(prev[i], RMul(ConfigR, lap))
        /\ \A k \in 1..Len(returned) : Len(returned[k]) = NT + 1

C9_Witness ==
    /\ Len(returned) >= 1
    /\ NX = MaxNX
    /\ NT = MaxNT
    /\ Snap(returned[1], NT)[2] # Zero
    /\ Snap(returned[1], NT)[3] # Zero

\* C10: after a solve() call the live field equals the last entry of the
\* history it returned, and the next call's entry 0 equals that entry.
C10_Continues ==
    /\ (pc = "idle" /\ returned # <<>>) =>
          heap[u] = Snap(returned[Len(returned)], NT)
    /\ \A k \in 1..(Len(Hists) - 1) :
          /\ Snap(Hists[k + 1], 0) = Snap(Hists[k], NT)
          /\ Snap(Hists[k], NT) # Impulse => Snap(Hists[k + 1], 0) # Impulse

C10_Witness ==
    /\ Len(returned) >= 2
    /\ Snap(returned[2], 0) = Snap(returned[1], NT)
    /\ Snap(returned[2], 0) # Impulse

====
